---- MODULE Spec2Model ----
(***************************************************************************)
(* zkip: zero-knowledge IP location proof.                                 *)
(*                                                                         *)
(* The module models                                                       *)
(*   - the library (lib/src/lib.rs): is_excluded, ip_to_u32, u32_to_ip and *)
(*     the ABI layout of PublicValuesStruct;                               *)
(*   - the proving program (program/src/main.rs): main;                    *)
(*   - the host script (script/src/bin/main.rs): the GeoIP cache, the      *)
(*     country resolver, the range loader and the stdin it writes.         *)
(*                                                                         *)
(* Texts are sequences of one-character strings, byte strings are          *)
(* sequences of integers in 0..255.                                        *)
(*                                                                         *)
(* Specifications, one per component:                                      *)
(*   SpecEval     is_excluded on any address and ranges                    *)
(*   SpecProve    host stdin -> program main -> host abi_decode            *)
(*   SpecAddr     u32_to_ip then ip_to_u32                                 *)
(*   SpecText     ip_to_u32 then u32_to_ip                                 *)
(*   SpecResolve  parse_excluded_countries                                 *)
(*   SpecLoad     load_ip_ranges_for_countries                             *)
(*   SpecCache    ensure_geoip_database and fetch_geoip_database           *)
(***************************************************************************)
EXTENDS Integers, Sequences, FiniteSets, TLC

VARIABLES
    pc,                 \* position of the modelled run
    ip,                 \* u32: the private address
    excluded_ranges,    \* Vec<(u32, u32)>: the private ranges
    excluded_countries, \* Vec<u16>: public input
    timestamp,          \* u32: public input
    stdin,              \* SP1Stdin: the values written by the host, in order
    result,             \* the bool is_excluded returned (or "none")
    examined,           \* how many ranges the loop of is_excluded looked at
    committed,          \* the bytes given to commit_slice (or "none")
    decoded,            \* what the host decoded from the output (or "none")
    ip_str,             \* a dotted-quad text (args.ip)
    parsed,             \* the Result of ip_to_u32 (or "none")
    shown,              \* the text u32_to_ip returned (or "none")
    exclude_arg,        \* the text of --exclude
    resolved,           \* the Result of parse_excluded_countries (or "none")
    dataset,            \* the lines of the GeoIP file given to the loader
    country_codes,      \* the alpha-2 codes given to the loader
    loaded,             \* the Result of load_ip_ranges_for_countries
    refresh,            \* args.refresh
    file,               \* the cache file at get_cache_path()
    now,                \* SystemTime::now(), in seconds
    before,             \* the cache file as ensure_geoip_database found it
    attempted,          \* whether fetch_geoip_database was called
    content,            \* the response body held by fetch_geoip_database
    fetch_error,        \* the error fetch_geoip_database returned (or "none")
    warned,             \* whether the "Using cached version" warning was printed
    ensured,            \* the Result of ensure_geoip_database (or "none")
    output,             \* what client.execute returned to the host (or "none")
    expected,           \* the host's own is_excluded(ip, ranges) (or "none")
    passed,             \* whether "Verification passed!" was printed
    run                 \* the concurrent runs sharing the cache file

progVars == <<ip, excluded_ranges, excluded_countries, timestamp, stdin,
              result, examined, committed, decoded>>

codecVars == <<ip_str, parsed, shown>>

resolverVars == <<exclude_arg, resolved>>

loaderVars == <<dataset, country_codes, loaded>>

cacheVars == <<refresh, file, now, before, attempted, content, fetch_error,
               warned, ensured>>

execVars == <<output, expected, passed>>

raceVars == <<run>>

vars == <<pc, progVars, codecVars, resolverVars, loaderVars, cacheVars,
          execVars, raceVars>>

\* What the evaluator and the proving run leave alone.
notProg == <<codecVars, resolverVars, loaderVars, cacheVars, execVars,
             raceVars>>

\* What the address codec leaves alone.
notCodec == <<progVars, resolverVars, loaderVars, cacheVars, execVars,
              raceVars>>

\* What the country resolver and the range loader leave alone.
notHost == <<progVars, codecVars, cacheVars, execVars, raceVars>>

\* What the GeoIP cache leaves alone.
notCache == <<progVars, codecVars, resolverVars, loaderVars, execVars,
              raceVars>>

None == "none"

\* Result<T, E>
Ok(v) == [ok |-> TRUE, val |-> v]
Err(e) == [ok |-> FALSE, err |-> e]

U16Max == 65535
U8Max  == 255

(***************************************************************************)
(* u32.  TLC's integers end at 2^31 - 1, so a u32 is kept at its full      *)
(* width as its two 16-bit halves <<hi, lo>>, standing for hi * 2^16 + lo. *)
(***************************************************************************)
Half == 65536

U32Of(n) == <<n \div Half, n % Half>>       \* n a literal below 2^31

U32Zero == <<0, 0>>
U32Max  == <<U16Max, U16Max>>               \* 2^32 - 1

\* a <= b on u32
U32Le(a, b) == a[1] < b[1] \/ (a[1] = b[1] /\ a[2] <= b[2])

(***************************************************************************)
(* Bounds and input domains                                                *)
(***************************************************************************)
MaxRanges == 2          \* longest range collection given to the evaluator
MaxPrivRanges == 1      \* longest range collection written to the stdin
MaxCountries == 2       \* longest country list written to the stdin

\* 8.8.8.8 (134744072), the range (1534132224, 1534140415) of the end-to-end
\* scenario with the address 1534132225 inside it, and the two ends of u32.
Addrs == {U32Zero, U32Of(134744072), U32Of(1534132224), U32Of(1534132225),
          U32Of(1534140415), U32Max}

SeqsUpTo(S, n) == UNION {[1..k -> S] : k \in 0..n}

\* The private inputs of a proving run: 134744072 and 1534132225 against
\* ranges made of the two ends of the scenario's range.
PrivAddrs == {U32Of(134744072), U32Of(1534132225)}
PrivEnds == {U32Of(1534132224), U32Of(1534140415)}
PrivRangeSets == SeqsUpTo(PrivEnds \X PrivEnds, MaxPrivRanges)

\* The public inputs: u16 codes (250 = FR) and u32 timestamps.
Codes == {0, 250, U16Max}
CountryLists == SeqsUpTo(Codes, MaxCountries)
Timestamps == {U32Zero, U32Of(1700000000), U32Max}

(***************************************************************************)
(* lib.rs: is_excluded                                                     *)
(***************************************************************************)
RECURSIVE scan_from(_, _, _)

\* Mutant: the upper bound of a range is exclusive.
scan_from_exclusive_end(addr, ranges, i) ==
    IF i > Len(ranges)
    THEN [ret |-> TRUE, examined |-> Len(ranges)]
    ELSE IF U32Le(ranges[i][1], addr) /\ U32Le(addr, ranges[i][2])
              /\ addr # ranges[i][2]
         THEN [ret |-> FALSE, examined |-> i]
         ELSE scan_from(addr, ranges, i + 1)

\* The for loop of is_excluded from its i-th range on: the value returned and
\* the number of ranges the loop has looked at when it returns.
scan_from(addr, ranges, i) ==
    IF i > Len(ranges)
    THEN [ret |-> TRUE, examined |-> Len(ranges)]
    ELSE IF U32Le(ranges[i][1], addr) /\ U32Le(addr, ranges[i][2])
         THEN [ret |-> FALSE, examined |-> i]
         ELSE scan_from(addr, ranges, i + 1)

is_excluded_scan(addr, ranges) == scan_from(addr, ranges, 1)

is_excluded(addr, ranges) == is_excluded_scan(addr, ranges).ret

(***************************************************************************)
(* The evaluator alone: is_excluded applied to any address and ranges      *)
(***************************************************************************)
\* A file that does not exist.
NoFile == [exists |-> FALSE, content |-> <<>>, mtime |-> 0]

IdleExec ==
    /\ output = None
    /\ expected = None
    /\ passed = FALSE

IdleRace == run = <<>>

IdleCache ==
    /\ refresh = FALSE
    /\ file = NoFile
    /\ now = 0
    /\ before = NoFile
    /\ attempted = FALSE
    /\ content = <<>>
    /\ fetch_error = None
    /\ warned = FALSE
    /\ ensured = None

IdleHost ==
    /\ exclude_arg = <<>>
    /\ resolved = None
    /\ dataset = <<>>
    /\ country_codes = <<>>
    /\ loaded = None

IdleCodec ==
    /\ ip_str = <<>>
    /\ parsed = None
    /\ shown = None

IdleProg ==
    /\ excluded_countries = <<>>
    /\ timestamp = U32Zero
    /\ stdin = <<>>
    /\ committed = None
    /\ decoded = None

InitEval ==
    /\ pc = "eval"
    /\ IdleExec
    /\ IdleRace
    /\ ip \in Addrs
    /\ excluded_ranges \in SeqsUpTo(Addrs \X Addrs, MaxRanges)
    /\ result = None
    /\ examined = 0
    /\ IdleProg
    /\ IdleCache
    /\ IdleCodec
    /\ IdleHost

Evaluate ==
    /\ pc = "eval"
    /\ result' = is_excluded(ip, excluded_ranges)
    /\ examined' = is_excluded_scan(ip, excluded_ranges).examined
    /\ pc' = "evaluated"
    /\ UNCHANGED <<ip, excluded_ranges, excluded_countries, timestamp, stdin,
                   committed, decoded, notProg>>

NextEval == Evaluate

SpecEval == InitEval /\ [][NextEval]_vars

\* s <= a <= e
InRange(a, r) == U32Le(r[1], a) /\ U32Le(a, r[2])

Permuted(ranges, p) == [i \in DOMAIN ranges |-> ranges[p[i]]]

\* C1: is_excluded(ip, ranges) is false exactly when some range (s, e) of the
\* collection has s <= ip <= e, and true otherwise; both bounds of a
\* well-formed range match, an inverted range matches no address, and
\* permuting the collection does not change the result.
C1_Membership ==
    pc = "evaluated" =>
        /\ result = ~(\E i \in DOMAIN excluded_ranges :
                          InRange(ip, excluded_ranges[i]))
        /\ \A p \in Permutations(DOMAIN excluded_ranges) :
               is_excluded(ip, Permuted(excluded_ranges, p)) = result
        /\ \A i \in DOMAIN excluded_ranges :
               LET r == excluded_ranges[i] IN
               IF U32Le(r[1], r[2])
               THEN /\ is_excluded(r[1], excluded_ranges) = FALSE
                    /\ is_excluded(r[2], excluded_ranges) = FALSE
               ELSE \A a \in Addrs : is_excluded(a, <<r>>) = TRUE

\* The address is the end bound of the second range, the first range is
\* inverted, and the evaluator answered "excluded".
C1_Witness ==
    /\ pc = "evaluated"
    /\ Len(excluded_ranges) = 2
    /\ ~U32Le(excluded_ranges[1][1], excluded_ranges[1][2])
    /\ excluded_ranges[2][1] # excluded_ranges[2][2]
    /\ ip = excluded_ranges[2][2]
    /\ result = FALSE

\* C2: the evaluator scans the whole collection: any other input whose
\* collection has the same length makes the loop examine as many ranges as
\* this one did, wherever a range matches.
C2_FullScan ==
    pc = "evaluated" =>
        \A ip2 \in Addrs :
            \A ranges2 \in [DOMAIN excluded_ranges -> Addrs \X Addrs] :
                is_excluded_scan(ip2, ranges2).examined = examined


(***************************************************************************)
(* PublicValuesStruct and its ABI encoding (alloy_sol_types):              *)
(* abi_encode of the struct as one value, a dynamic tuple                  *)
(*   word 0   offset of the tuple (32)                                     *)
(*   word 1   is_excluded, word 2 timestamp, word 3 offset of the array    *)
(*            from the start of the tuple (96)                             *)
(*   word 4   length of excluded_countries, then one word per code         *)
(* every word 32 bytes, big-endian, left-padded with zeros.                *)
(***************************************************************************)
PublicValuesStruct(b, ts, countries) ==
    [is_excluded |-> b, timestamp |-> ts, excluded_countries |-> countries]

WordLen == 32

Zeros(n) == [i \in 1..n |-> 0]

\* a u32 <<hi, lo>> as a 32-byte word
Word(v) ==
    Zeros(28) \o <<v[1] \div 256, v[1] % 256, v[2] \div 256, v[2] % 256>>

RECURSIVE WordsOfCodes(_)
WordsOfCodes(codes) ==
    IF codes = <<>> THEN <<>>
    ELSE Word(U32Of(Head(codes))) \o WordsOfCodes(Tail(codes))

\* Mutant: a code is written as a uint8, its high byte dropped.
abi_encode_narrow_codes(r) ==
    Word(U32Of(32))
    \o Word(U32Of(IF r.is_excluded THEN 1 ELSE 0))
    \o Word(r.timestamp)
    \o Word(U32Of(96))
    \o Word(U32Of(Len(r.excluded_countries)))
    \o WordsOfCodes([i \in DOMAIN r.excluded_countries |->
                        r.excluded_countries[i] % 256])

abi_encode(r) ==
    Word(U32Of(32))
    \o Word(U32Of(IF r.is_excluded THEN 1 ELSE 0))
    \o Word(r.timestamp)
    \o Word(U32Of(96))
    \o Word(U32Of(Len(r.excluded_countries)))
    \o WordsOfCodes(r.excluded_countries)

\* The word at byte offset off; Err past the end of the buffer.
WordAt(bytes, off) ==
    IF off + WordLen <= Len(bytes)
    THEN Ok(SubSeq(bytes, off + 1, off + WordLen))
    ELSE Err("overrun")

\* Whether the first n bytes of a word are zero (the value fits the type).
Padded(w, n) == \A i \in 1..n : w[i] = 0

WordU32(w) == <<w[29] * 256 + w[30], w[31] * 256 + w[32]>>

\* An offset or a length: a word below 2^16 (no buffer here is longer).
WordIndex(rw) ==
    IF rw.ok /\ Padded(rw.val, 30) THEN Ok(WordU32(rw.val)[2])
    ELSE Err("overrun")

RECURSIVE DecodeCodes(_, _, _)
DecodeCodes(bytes, off, n) ==
    IF n = 0 THEN Ok(<<>>)
    ELSE LET w == WordAt(bytes, off)
             rest == DecodeCodes(bytes, off + WordLen, n - 1)
         IN  IF ~w.ok \/ ~rest.ok THEN Err("overrun")
             ELSE IF ~Padded(w.val, 30) THEN Err("type check failed")
             ELSE Ok(<<WordU32(w.val)[2]>> \o rest.val)

abi_decode(bytes) ==
    LET t == WordIndex(WordAt(bytes, 0)) IN
    IF ~t.ok THEN t ELSE
    LET wb == WordAt(bytes, t.val)
        wt == WordAt(bytes, t.val + WordLen)
        a  == WordIndex(WordAt(bytes, t.val + 2 * WordLen))
    IN
    IF ~wb.ok \/ ~wt.ok \/ ~a.ok THEN Err("overrun") ELSE
    IF ~(Padded(wb.val, 31) /\ wb.val[32] \in {0, 1}) \/ ~Padded(wt.val, 28)
    THEN Err("type check failed") ELSE
    LET n == WordIndex(WordAt(bytes, t.val + a.val)) IN
    IF ~n.ok THEN n ELSE
    LET cs == DecodeCodes(bytes, t.val + a.val + WordLen, n.val) IN
    IF ~cs.ok THEN cs
    ELSE Ok(PublicValuesStruct(wb.val[32] = 1, WordU32(wt.val), cs.val))

(***************************************************************************)
(* The host writes the stdin, the program commits, the host decodes        *)
(***************************************************************************)
\* script main: the four stdin.write calls, in this order
host_stdin(addr, ranges, countries, ts) == <<addr, ranges, countries, ts>>

\* Mutant: the program commits the private address in the timestamp field.
program_main_commits_ip(in) ==
    abi_encode(PublicValuesStruct(is_excluded(in[1], in[2]), in[1], in[3]))

\* program main: four positional reads, is_excluded, abi_encode; the value
\* is the byte string handed to commit_slice.
program_main(in) ==
    LET r_ip == in[1]
        r_excluded_ranges == in[2]
        r_excluded_countries == in[3]
        r_timestamp == in[4]
    IN  abi_encode(PublicValuesStruct(is_excluded(r_ip, r_excluded_ranges),
                                      r_timestamp, r_excluded_countries))

InitProve ==
    /\ pc = "host"
    /\ IdleExec
    /\ IdleRace
    /\ ip \in PrivAddrs
    /\ excluded_ranges \in PrivRangeSets
    /\ excluded_countries \in CountryLists
    /\ timestamp \in Timestamps
    /\ stdin = <<>>
    /\ result = None
    /\ examined = 0
    /\ committed = None
    /\ decoded = None
    /\ IdleCodec
    /\ IdleHost
    /\ IdleCache

HostWriteStdin ==
    /\ pc = "host"
    /\ stdin' = host_stdin(ip, excluded_ranges, excluded_countries, timestamp)
    /\ pc' = "execute"
    /\ UNCHANGED <<ip, excluded_ranges, excluded_countries, timestamp, result,
                   examined, committed, decoded, notProg>>

ProgramMain ==
    /\ pc = "execute"
    /\ result' = is_excluded(stdin[1], stdin[2])
    /\ examined' = is_excluded_scan(stdin[1], stdin[2]).examined
    /\ committed' = program_main(stdin)
    /\ pc' = "committed"
    /\ UNCHANGED <<ip, excluded_ranges, excluded_countries, timestamp, stdin,
                   decoded, notProg>>

\* The public values client.execute can hand back for a stdin: what the
\* program of program/src/main.rs commits, or, when the embedded ELF or the
\* environment is at fault, the encoding of another verdict or bytes that
\* do not decode.
ExecuteOutputs(in) ==
    {program_main(in)}
    \cup {abi_encode(PublicValuesStruct(b, in[4], in[3])) : b \in BOOLEAN}
    \cup {SubSeq(program_main(in), 1, 2 * WordLen)}

\* script main.rs, lines 229-241: client.execute(...).run() returns the
\* output or fails, and abi_decode of the output returns the record or
\* fails; either failure leaves main through its ?.
HostDecode ==
    /\ pc = "committed"
    /\ \/ /\ pc' = "exit_err"
          /\ UNCHANGED <<output, decoded>>
       \/ \E out \in ExecuteOutputs(stdin) :
             /\ output' = out
             /\ decoded' = abi_decode(out)
             /\ pc' = IF abi_decode(out).ok THEN "decoded" ELSE "exit_err"
    /\ UNCHANGED <<ip, excluded_ranges, excluded_countries, timestamp, stdin,
                   result, examined, committed, expected, passed, codecVars,
                   resolverVars, loaderVars, cacheVars, raceVars>>

NextProve == HostWriteStdin \/ ProgramMain \/ HostDecode

SpecProve == InitProve /\ [][NextProve]_vars

\* C3: the committed bytes are encode(is_excluded(ip, ranges), timestamp,
\* excluded_countries) over the host's public inputs, the country list as the
\* caller gave it; a run with the same public inputs and the same boolean
\* result commits the same bytes whatever its private address and ranges.
C3_CommitOnlyPublic ==
    pc \in {"committed", "decoded"} =>
        /\ committed = abi_encode(PublicValuesStruct(
                            is_excluded(ip, excluded_ranges), timestamp,
                            excluded_countries))
        /\ abi_decode(committed).val.excluded_countries = excluded_countries
        /\ \A ip2 \in PrivAddrs : \A ranges2 \in PrivRangeSets :
               is_excluded(ip2, ranges2) = is_excluded(ip, excluded_ranges)
               => program_main(host_stdin(ip2, ranges2, excluded_countries,
                                          timestamp)) = committed

\* A run whose address is inside its range has committed "excluded" with an
\* unsorted country list holding a duplicate-free pair.
C3_Witness ==
    /\ pc = "committed"
    /\ result = FALSE
    /\ excluded_ranges # <<>>
    /\ excluded_countries = <<U16Max, 250>>

\* C4: decoding the encoding of a commitment record returns the record, for
\* both booleans, timestamps 0 and 2^32 - 1 and the empty country list; a
\* host handed the bytes the program committed decodes the program's record.
C4_RoundTrip ==
    /\ \A b \in BOOLEAN :
           abi_decode(abi_encode(PublicValuesStruct(b, timestamp,
                                                    excluded_countries)))
           = Ok(PublicValuesStruct(b, timestamp, excluded_countries))
    /\ (pc = "decoded" /\ output = committed) =>
           decoded = Ok(PublicValuesStruct(result, timestamp,
                                           excluded_countries))

\* The host decoded a record with an empty country list and timestamp
\* 2^32 - 1.
C4_Witness ==
    /\ pc = "decoded"
    /\ output = committed
    /\ excluded_countries = <<>>
    /\ timestamp = U32Max
    /\ decoded.ok
    /\ decoded.val.is_excluded = FALSE

(***************************************************************************)
(* Texts: str::split, and <u8 as FromStr> / <u32 as FromStr>               *)
(***************************************************************************)
MaxTextLen == 8         \* longest address text given to ip_to_u32

Digits == <<"0", "1", "2", "3", "4", "5", "6", "7", "8", "9">>

IsDigit(c) == \E i \in 1..10 : Digits[i] = c

DigitVal(c) == (CHOOSE i \in 1..10 : Digits[i] = c) - 1

\* str::split(sep): the pieces between the separators, empty pieces kept
RECURSIVE Split(_, _)
Split(text, sep) ==
    IF \A i \in DOMAIN text : text[i] # sep
    THEN <<text>>
    ELSE LET i == CHOOSE k \in DOMAIN text :
                      text[k] = sep /\ \A j \in 1..(k - 1) : text[j] # sep
         IN  <<SubSeq(text, 1, i - 1)>>
             \o Split(SubSeq(text, i + 1, Len(text)), sep)

\* The digit loop of from_str_radix on a u32 accumulator: checked_mul(10)
\* then checked_add(digit), on the halves.
RECURSIVE ParseDigits(_, _)
ParseDigits(digits, acc) ==
    IF digits = <<>> THEN Ok(acc)
    ELSE IF ~IsDigit(Head(digits)) THEN Err("InvalidDigit")
    ELSE LET lo == acc[2] * 10 + DigitVal(Head(digits))
             hi == acc[1] * 10 + lo \div Half
         IN  IF hi >= Half THEN Err("PosOverflow")
             ELSE ParseDigits(Tail(digits), <<hi, lo % Half>>)

\* str::parse::<u32>(): an optional "+", then decimal digits, at least one;
\* an unsigned type takes no "-".
parse_u32(text) ==
    IF text = <<>> THEN Err("Empty")
    ELSE IF Len(text) = 1 /\ text[1] \in {"+", "-"} THEN Err("InvalidDigit")
    ELSE IF text[1] = "+" THEN ParseDigits(Tail(text), U32Zero)
    ELSE ParseDigits(text, U32Zero)

\* The digit loop of from_str_radix on an accumulator of a narrower type
\* with greatest value max: the digit is looked at first, then checked_mul(10)
\* and checked_add(digit), so that the loop stops at the first digit that
\* overflows or character that is no digit.
RECURSIVE ParseNarrow(_, _, _)
ParseNarrow(digits, acc, max) ==
    IF digits = <<>> THEN Ok(acc)
    ELSE IF ~IsDigit(Head(digits)) THEN Err("InvalidDigit")
    ELSE IF acc * 10 + DigitVal(Head(digits)) > max THEN Err("PosOverflow")
    ELSE ParseNarrow(Tail(digits), acc * 10 + DigitVal(Head(digits)), max)

\* str::parse of an unsigned type narrower than u32
parse_narrow(text, max) ==
    IF text = <<>> THEN Err("Empty")
    ELSE IF Len(text) = 1 /\ text[1] \in {"+", "-"} THEN Err("InvalidDigit")
    ELSE IF text[1] = "+" THEN ParseNarrow(Tail(text), 0, max)
    ELSE ParseNarrow(text, 0, max)

\* str::parse::<u8>(): the same, the value at most 255.
parse_u8(text) == parse_narrow(text, U8Max)

\* format!("{}", n) of an unsigned number
RECURSIVE Decimal(_)
Decimal(n) ==
    IF n < 10 THEN <<Digits[n + 1]>>
    ELSE Decimal(n \div 10) \o <<Digits[(n % 10) + 1]>>

(***************************************************************************)
(* u32 shifts and bitwise operators, on the halves                         *)
(***************************************************************************)
RECURSIVE Shl(_, _)
Shl(v, k) ==
    IF k = 0 THEN v
    ELSE Shl(<<(v[1] * 2 + v[2] \div 32768) % Half, (v[2] * 2) % Half>>, k - 1)

RECURSIVE Shr(_, _)
Shr(v, k) ==
    IF k = 0 THEN v
    ELSE Shr(<<v[1] \div 2, v[2] \div 2 + (v[1] % 2) * 32768>>, k - 1)

RECURSIVE BitOr(_, _)
BitOr(a, b) ==
    IF a = 0 THEN b ELSE IF b = 0 THEN a
    ELSE (IF a % 2 = 1 \/ b % 2 = 1 THEN 1 ELSE 0)
         + 2 * BitOr(a \div 2, b \div 2)

RECURSIVE BitAnd(_, _)
BitAnd(a, b) ==
    IF a = 0 \/ b = 0 THEN 0
    ELSE (IF a % 2 = 1 /\ b % 2 = 1 THEN 1 ELSE 0)
         + 2 * BitAnd(a \div 2, b \div 2)

U32Or(a, b) == <<BitOr(a[1], b[1]), BitOr(a[2], b[2])>>

U32And(a, b) == <<BitAnd(a[1], b[1]), BitAnd(a[2], b[2])>>

(***************************************************************************)
(* lib.rs: ip_to_u32 and u32_to_ip                                         *)
(***************************************************************************)
\* Mutant: the second octet is shifted by 8 bits, as the third is.
ip_to_u32_wrong_shift(text) ==
    LET parts == Split(text, ".") IN
    IF Len(parts) # 4 THEN Err("Invalid IP format: expected 4 octets") ELSE
    LET a == parse_u8(parts[1])
        b == parse_u8(parts[2])
        c == parse_u8(parts[3])
        d == parse_u8(parts[4])
    IN  IF ~a.ok THEN Err("Invalid first octet")
        ELSE IF ~b.ok THEN Err("Invalid second octet")
        ELSE IF ~c.ok THEN Err("Invalid third octet")
        ELSE IF ~d.ok THEN Err("Invalid fourth octet")
        ELSE Ok(U32Or(U32Or(U32Or(Shl(<<0, a.val>>, 24), Shl(<<0, b.val>>, 8)),
                            Shl(<<0, c.val>>, 8)),
                      <<0, d.val>>))

ip_to_u32(text) ==
    LET parts == Split(text, ".") IN
    IF Len(parts) # 4 THEN Err("Invalid IP format: expected 4 octets") ELSE
    LET a == parse_u8(parts[1])
        b == parse_u8(parts[2])
        c == parse_u8(parts[3])
        d == parse_u8(parts[4])
    IN  IF ~a.ok THEN Err("Invalid first octet")
        ELSE IF ~b.ok THEN Err("Invalid second octet")
        ELSE IF ~c.ok THEN Err("Invalid third octet")
        ELSE IF ~d.ok THEN Err("Invalid fourth octet")
        ELSE Ok(U32Or(U32Or(U32Or(Shl(<<0, a.val>>, 24), Shl(<<0, b.val>>, 16)),
                            Shl(<<0, c.val>>, 8)),
                      <<0, d.val>>))

u32_to_ip(v) ==
    Decimal(U32And(Shr(v, 24), <<0, U8Max>>)[2]) \o <<".">>
    \o Decimal(U32And(Shr(v, 16), <<0, U8Max>>)[2]) \o <<".">>
    \o Decimal(U32And(Shr(v, 8), <<0, U8Max>>)[2]) \o <<".">>
    \o Decimal(U32And(v, <<0, U8Max>>)[2])

(***************************************************************************)
(* The address codec, from the number: u32_to_ip, then ip_to_u32           *)
(***************************************************************************)
Octets == {0, 1, 8, 91, 100, 121, U8Max}

OctetAddrs == {<<a * 256 + b, c * 256 + d>> : a, b \in Octets, c, d \in Octets}

InitAddr ==
    /\ pc = "addr"
    /\ IdleExec
    /\ IdleRace
    /\ ip \in OctetAddrs
    /\ excluded_ranges = <<>>
    /\ result = None
    /\ examined = 0
    /\ IdleProg
    /\ IdleCache
    /\ IdleCodec
    /\ IdleHost

ShowAddr ==
    /\ pc = "addr"
    /\ shown' = u32_to_ip(ip)
    /\ pc' = "shown"
    /\ UNCHANGED <<notCodec, ip_str, parsed>>

ParseShown ==
    /\ pc = "shown"
    /\ ip_str' = shown
    /\ parsed' = ip_to_u32(shown)
    /\ pc' = "reparsed"
    /\ UNCHANGED <<notCodec, shown>>

NextAddr == ShowAddr \/ ParseShown

SpecAddr == InitAddr /\ [][NextAddr]_vars

\* a.b.c.d written with format!
Dotted(a, b, c, d) ==
    Decimal(a) \o <<".">> \o Decimal(b) \o <<".">> \o Decimal(c) \o <<".">>
    \o Decimal(d)

Text_8_8_8_8 == <<"8", ".", "8", ".", "8", ".", "8">>

Text_91_121_0_1 == <<"9", "1", ".", "1", "2", "1", ".", "0", ".", "1">>

\* The round trip from the number, and the value of a.b.c.d.
AddressRoundTrip ==
    /\ pc = "reparsed" => parsed = Ok(ip)
    /\ LET a == ip[1] \div 256
           b == ip[1] % 256
           c == ip[2] \div 256
           d == ip[2] % 256
           r == ip_to_u32(Dotted(a, b, c, d))
       IN  /\ r = Ok(<<a * 256 + b, c * 256 + d>>)
           /\ a < 128 =>
                  r = Ok(U32Of(a * 16777216 + b * 65536 + c * 256 + d))

\* C5 (amended): ip_to_u32 accepts u32_to_ip(n) and gives n back; for octets
\* a, b, c, d the text a.b.c.d parses to a*2^24 + b*2^16 + c*2^8 + d, so
\* 8.8.8.8 gives 134744072 and 91.121.0.1 gives 1534656513.
C5_AddressRoundTrip ==
    /\ AddressRoundTrip
    /\ (pc = "reparsed" /\ shown = Text_8_8_8_8)
           => parsed = Ok(U32Of(134744072))
    /\ (pc = "reparsed" /\ shown = Text_91_121_0_1)
           => parsed = Ok(U32Of(1534656513))

\* 91.121.0.1 was shown and parsed back.
C5_Witness ==
    /\ pc = "reparsed"
    /\ ip = <<91 * 256 + 121, 1>>
    /\ shown = Text_91_121_0_1
    /\ parsed.ok

\* C5 as claimed: the same, with 91.121.0.1 giving 1534132225.
C5_AsClaimed ==
    /\ AddressRoundTrip
    /\ (pc = "reparsed" /\ shown = Text_8_8_8_8)
           => parsed = Ok(U32Of(134744072))
    /\ (pc = "reparsed" /\ shown = Text_91_121_0_1)
           => parsed = Ok(U32Of(1534132225))

(***************************************************************************)
(* The address codec, from the text: ip_to_u32, then u32_to_ip             *)
(***************************************************************************)
TextChars == {"0", "1", "+", "."}

InitText ==
    /\ pc = "text"
    /\ IdleExec
    /\ IdleRace
    /\ ip_str \in SeqsUpTo(TextChars, MaxTextLen)
    /\ parsed = None
    /\ shown = None
    /\ ip = U32Zero
    /\ excluded_ranges = <<>>
    /\ result = None
    /\ examined = 0
    /\ IdleProg
    /\ IdleCache
    /\ IdleHost

ParseText ==
    /\ pc = "text"
    /\ parsed' = ip_to_u32(ip_str)
    /\ pc' = "parsed"
    /\ UNCHANGED <<notCodec, ip_str, shown>>

ShowParsed ==
    /\ pc = "parsed"
    /\ parsed.ok
    /\ shown' = u32_to_ip(parsed.val)
    /\ pc' = "reshown"
    /\ UNCHANGED <<notCodec, ip_str, parsed>>

NextText == ParseText \/ ShowParsed

SpecText == InitText /\ [][NextText]_vars

\* C6: for every text ip_to_u32 accepts, u32_to_ip of the parsed number is
\* the text itself.
C6_TextRoundTrip ==
    pc = "reshown" => shown = ip_str

(***************************************************************************)
(* Texts: str::trim and str::to_uppercase                                  *)
(***************************************************************************)
LowerLetters == <<"a", "b", "c", "d", "e", "f", "g", "h", "i", "j", "k", "l",
                  "m", "n", "o", "p", "q", "r", "s", "t", "u", "v", "w", "x",
                  "y", "z">>

UpperLetters == <<"A", "B", "C", "D", "E", "F", "G", "H", "I", "J", "K", "L",
                  "M", "N", "O", "P", "Q", "R", "S", "T", "U", "V", "W", "X",
                  "Y", "Z">>

UpperChar(c) ==
    IF \E i \in 1..26 : LowerLetters[i] = c
    THEN UpperLetters[CHOOSE i \in 1..26 : LowerLetters[i] = c]
    ELSE c

to_uppercase(text) == [i \in DOMAIN text |-> UpperChar(text[i])]

\* The vertical tab, U+000B.
VT == ""

\* The characters with the White_Space property that a text of the model
\* can hold.
WhiteSpace == {" ", "\t", "\n", "\r", "\f", VT}

\* str::trim: the text without its leading and trailing white space
trim(text) ==
    LET keep == {i \in DOMAIN text : text[i] \notin WhiteSpace} IN
    IF keep = {} THEN <<>>
    ELSE SubSeq(text, CHOOSE i \in keep : \A j \in keep : i <= j,
                      CHOOSE i \in keep : \A j \in keep : i >= j)

\* str::parse::<u16>()
parse_u16(text) == parse_narrow(text, U16Max)

(***************************************************************************)
(* script main.rs: load_country_codes and parse_excluded_countries         *)
(***************************************************************************)
\* The lines of data/countries.csv the model reads: a header, two countries
\* (one spelled in lower case), a row whose numeric code is no number and a
\* row with too few fields.
CountriesCsv == <<
    <<"n", ",", "a", ",", "b", ",", "c">>,
    <<"F", "r", "a", "n", "c", "e", ",", "F", "R", ",", "F", "R", "A", ",", "2", "5", "0">>,
    <<"S", "t", "a", "t", "e", "s", ",", "u", "s", ",", "U", "S", "A", ",", "8", "4", "0">>,
    <<"N", "o", "w", "h", "e", "r", "e", ",", "Z", "Z", ",", "Z", "Z", "Z", ",", "x">>,
    <<"S", "h", "o", "r", "t", ",", "Q", "Q">> >>

EmptyMap == [k \in {} |-> 0]

\* HashMap::insert
Insert(map, key, value) ==
    [k \in DOMAIN map \cup {key} |-> IF k = key THEN value ELSE map[k]]

\* The loop of load_country_codes from line i on (line 1 is the header).
RECURSIVE load_country_rows(_, _, _)
load_country_rows(lines, i, codes) ==
    IF i > Len(lines) THEN codes
    ELSE IF i = 1 THEN load_country_rows(lines, i + 1, codes)
    ELSE LET fields == Split(lines[i], ",") IN
         IF Len(fields) >= 4 /\ parse_u16(fields[4]).ok
         THEN load_country_rows(lines, i + 1,
                  Insert(codes, to_uppercase(fields[2]),
                         parse_u16(fields[4]).val))
         ELSE load_country_rows(lines, i + 1, codes)

load_country_codes == load_country_rows(CountriesCsv, 1, EmptyMap)

RECURSIVE resolve_from(_, _, _, _)

\* Mutant: an unknown code is skipped instead of failing the call.
resolve_from_skip_unknown(entries, i, alpha2_codes, numeric_codes) ==
    IF i > Len(entries)
    THEN IF numeric_codes = <<>>
         THEN Err(<<"No valid country codes provided">>)
         ELSE Ok(<<alpha2_codes, numeric_codes>>)
    ELSE LET code == to_uppercase(trim(entries[i])) IN
         IF code = <<>>
         THEN resolve_from(entries, i + 1, alpha2_codes, numeric_codes)
         ELSE IF code \in DOMAIN load_country_codes
         THEN resolve_from(entries, i + 1, Append(alpha2_codes, code),
                           Append(numeric_codes, load_country_codes[code]))
         ELSE resolve_from(entries, i + 1, alpha2_codes, numeric_codes)

\* The loop of parse_excluded_countries from its i-th entry on, and the check
\* after it.
resolve_from(entries, i, alpha2_codes, numeric_codes) ==
    IF i > Len(entries)
    THEN IF numeric_codes = <<>>
         THEN Err(<<"No valid country codes provided">>)
         ELSE Ok(<<alpha2_codes, numeric_codes>>)
    ELSE LET code == to_uppercase(trim(entries[i])) IN
         IF code = <<>>
         THEN resolve_from(entries, i + 1, alpha2_codes, numeric_codes)
         ELSE IF code \in DOMAIN load_country_codes
         THEN resolve_from(entries, i + 1, Append(alpha2_codes, code),
                           Append(numeric_codes, load_country_codes[code]))
         ELSE Err(<<"Unknown country code", code>>)

parse_excluded_countries(arg) == resolve_from(Split(arg, ","), 1, <<>>, <<>>)

(***************************************************************************)
(* The country resolver on any --exclude text                              *)
(***************************************************************************)
MaxEntries == 3         \* most comma-separated entries of --exclude

\* FR, fr, " FR", "US ", Us, ZZ, the empty entry, a blank, "F R", FR before
\* a line feed, a form feed and a carriage return, us after a vertical tab
EntryTexts == {<<"F", "R">>, <<"f", "r">>, <<" ", "F", "R">>, <<"U", "S", " ">>, <<"U", "s">>,
               <<"Z", "Z">>, <<>>, <<" ">>, <<"F", " ", "R">>,
               <<"F", "R", "\n">>, <<"\f", "\r">>, <<VT, "u", "s">>}

RECURSIVE Join(_, _)
Join(parts, sep) ==
    IF Len(parts) = 1 THEN parts[1]
    ELSE parts[1] \o <<sep>> \o Join(Tail(parts), sep)

ExcludeArgs ==
    {Join(es, ",") : es \in SeqsUpTo(EntryTexts, MaxEntries) \ {<<>>}}

InitResolve ==
    /\ pc = "resolve"
    /\ IdleExec
    /\ IdleRace
    /\ exclude_arg \in ExcludeArgs
    /\ resolved = None
    /\ dataset = <<>>
    /\ country_codes = <<>>
    /\ loaded = None
    /\ ip = U32Zero
    /\ excluded_ranges = <<>>
    /\ result = None
    /\ examined = 0
    /\ IdleProg
    /\ IdleCache
    /\ IdleCodec

ParseExcludedCountries ==
    /\ pc = "resolve"
    /\ resolved' = parse_excluded_countries(exclude_arg)
    /\ pc' = "resolved"
    /\ UNCHANGED <<notHost, exclude_arg, loaderVars>>

NextResolve == ParseExcludedCountries

SpecResolve == InitResolve /\ [][NextResolve]_vars

NonBlank(text) == text # <<>>

\* The entries of arg, trimmed and upper-cased, the blank ones dropped.
Normalized(arg) ==
    LET es == Split(arg, ",") IN
    SelectSeq([i \in DOMAIN es |-> to_uppercase(trim(es[i]))], NonBlank)

LowerChar(c) ==
    IF \E i \in 1..26 : UpperLetters[i] = c
    THEN LowerLetters[CHOOSE i \in 1..26 : UpperLetters[i] = c]
    ELSE c

to_lowercase(text) == [i \in DOMAIN text |-> LowerChar(text[i])]

\* C7: parse_excluded_countries trims and upper-cases each entry and skips
\* the blank ones; it fails with the unknown-code error if a remaining entry
\* is not in the table, with the no-valid-codes error if none remains, and
\* otherwise returns the remaining entries and their numeric codes, in input
\* order with duplicates kept; the spelling's case does not change the result.
C7_Resolve ==
    pc = "resolved" =>
        LET es == Normalized(exclude_arg) IN
        /\ IF \E i \in DOMAIN es : es[i] \notin DOMAIN load_country_codes
           THEN ~resolved.ok /\ resolved.err[1] = "Unknown country code"
           ELSE IF es = <<>>
           THEN resolved = Err(<<"No valid country codes provided">>)
           ELSE /\ resolved.ok
                /\ resolved.val[1] = es
                /\ Len(resolved.val[2]) = Len(es)
                /\ \A i \in DOMAIN es :
                       resolved.val[2][i] = load_country_codes[es[i]]
        /\ parse_excluded_countries(to_lowercase(exclude_arg)) = resolved
        /\ parse_excluded_countries(to_uppercase(exclude_arg)) = resolved

\* "US ,fr,FR" resolved to (US, FR, FR) and (840, 250, 250): input order, the
\* duplicate kept.
C7_Witness ==
    /\ pc = "resolved"
    /\ exclude_arg = <<"U", "S", " ", ",", "f", "r", ",", "F", "R">>
    /\ resolved = Ok(<<<<<<"U", "S">>, <<"F", "R">>, <<"F", "R">>>>, <<840, 250, 250>>>>)

(***************************************************************************)
(* script main.rs (and evm.rs): load_ip_ranges_for_countries               *)
(***************************************************************************)
\* The loop over reader.lines() from line i on.
RECURSIVE load_rows(_, _, _, _)
load_rows(lines, codes, i, ranges) ==
    IF i > Len(lines) THEN Ok(ranges)
    ELSE LET fields == Split(lines[i], ",") IN
         IF Len(fields) >= 3
            /\ \E k \in DOMAIN codes : codes[k] = to_uppercase(fields[3])
         THEN LET start == parse_u32(fields[1])
                  end == parse_u32(fields[2])
              IN  IF ~start.ok THEN Err("Invalid start IP")
                  ELSE IF ~end.ok THEN Err("Invalid end IP")
                  ELSE load_rows(lines, codes, i + 1,
                                 Append(ranges, <<start.val, end.val>>))
         ELSE load_rows(lines, codes, i + 1, ranges)

load_ip_ranges_for_countries(lines, codes) == load_rows(lines, codes, 1, <<>>)

(***************************************************************************)
(* The range loader on any dataset                                         *)
(***************************************************************************)
MaxRows == 2            \* most lines of the dataset

\* Well-formed rows (with extra columns, spelled in lower case, inverted),
\* rows with a bound that is no u32 and a row with two fields.
DatasetLines == {
    <<"1", ",", "5", ",", "F", "R">>,
    <<"7", ",", "9", ",", "u", "s">>,
    <<"9", ",", "7", ",", "F", "R">>,
    <<"0", ",", "4", "2", "9", "4", "9", "6", "7", "2", "9", "5", ",", "F", "R", ",", "x">>,
    <<"1", ",", "5", ",", "D", "E">>,
    <<"x", ",", "5", ",", "F", "R">>,
    <<"1", ",", "4", "2", "9", "4", "9", "6", "7", "2", "9", "6", ",", "F", "R">>,
    <<"1", ",", "y", ",", "D", "E">>,
    <<"1", ",", "5">>,
    <<"1", ",", "5", ",", "U", "S", ",", "x", ",", "5">> }

RequestedCodes == {<<<<"F", "R">>>>, <<<<"F", "R">>, <<"U", "S">>>>}

InitLoad ==
    /\ pc = "load"
    /\ IdleExec
    /\ IdleRace
    /\ dataset \in SeqsUpTo(DatasetLines, MaxRows)
    /\ country_codes \in RequestedCodes
    /\ loaded = None
    /\ exclude_arg = <<>>
    /\ resolved = None
    /\ ip = U32Zero
    /\ excluded_ranges = <<>>
    /\ result = None
    /\ examined = 0
    /\ IdleProg
    /\ IdleCache
    /\ IdleCodec

LoadIpRanges ==
    /\ pc = "load"
    /\ loaded' = load_ip_ranges_for_countries(dataset, country_codes)
    /\ pc' = "loaded"
    /\ UNCHANGED <<notHost, resolverVars, dataset, country_codes>>

NextLoad == LoadIpRanges

SpecLoad == InitLoad /\ [][NextLoad]_vars

\* A row with fewer than three fields, or whose start or end is no u32.
Malformed(line) ==
    LET fields == Split(line, ",") IN
    \/ Len(fields) < 3
    \/ ~parse_u32(fields[1]).ok
    \/ ~parse_u32(fields[2]).ok

Requested(line) ==
    \E k \in DOMAIN country_codes :
        country_codes[k] = to_uppercase(Split(line, ",")[3])

RowRange(line) ==
    LET fields == Split(line, ",") IN
    <<parse_u32(fields[1]).val, parse_u32(fields[2]).val>>

\* C8: the load fails whenever the dataset holds a malformed row, whatever
\* country the row names; a successful load means every row was well formed
\* and returns exactly the (start, end) pairs of the requested countries' rows.
C8_MalformedRowsAreFatal ==
    pc = "loaded" =>
        /\ (\E i \in DOMAIN dataset : Malformed(dataset[i])) => ~loaded.ok
        /\ loaded.ok =>
               LET rows == SelectSeq(dataset, Requested) IN
               loaded.val = [i \in DOMAIN rows |-> RowRange(rows[i])]

(***************************************************************************)
(* script main.rs (and evm.rs): the GeoIP cache                            *)
(*                                                                         *)
(* The cache file is [exists, content, mtime]; times are seconds.  The     *)
(* platform is one where Metadata::modified is available.                  *)
(***************************************************************************)
CACHE_MAX_AGE_DAYS == 30

Day == 24 * 60 * 60

MaxAgeSecs == CACHE_MAX_AGE_DAYS * 24 * 60 * 60

CachePath == "../data/ipv4-country.csv"

\* Mutant: a file aged exactly 30 days is stale.
is_cache_stale_at_limit(f, t) ==
    IF ~f.exists THEN TRUE
    ELSE IF t < f.mtime THEN TRUE
    ELSE t - f.mtime >= MaxAgeSecs

\* is_cache_stale: true when the metadata cannot be read, when
\* now.duration_since(modified) fails (modified is later than now), and
\* when the age exceeds 30 days.
is_cache_stale(f, t) ==
    IF ~f.exists THEN TRUE
    ELSE IF t < f.mtime THEN TRUE
    ELSE t - f.mtime > MaxAgeSecs

(***************************************************************************)
(* One call of ensure_geoip_database, step by step                         *)
(***************************************************************************)
Now0 == 100 * Day

\* The body the remote source serves, and what an earlier run cached.
RemoteCsv == <<"1", ",", "5", ",", "F", "R", "\n", "7", ",", "9", ",", "U", "S", "\n">>
OldCsvs == {<<"1", ",", "5", ",", "F", "R", "\n">>, <<"9", ",", "9", ",", "U", "S", "\n">>}

\* Last-modified times: 1 day, exactly 30 days and 30 days and a second
\* before now, and a day after now.
Mtimes == {Now0 - Day, Now0 - MaxAgeSecs, Now0 - MaxAgeSecs - 1, Now0 + Day}

CacheFiles ==
    {NoFile} \cup {[exists |-> TRUE, content |-> c, mtime |-> m] :
                      c \in OldCsvs, m \in Mtimes}

\* The steps of fetch_geoip_database before File::create that can fail.
FetchSteps == {"Failed to fetch GeoIP database", "HTTP error",
               "Failed to read response", "Failed to create data directory"}

InitCache ==
    /\ pc = "ensure"
    /\ IdleExec
    /\ IdleRace
    /\ refresh \in BOOLEAN
    /\ file \in CacheFiles
    /\ now = Now0
    /\ before = file
    /\ attempted = FALSE
    /\ content = <<>>
    /\ fetch_error = None
    /\ warned = FALSE
    /\ ensured = None
    /\ ip = U32Zero
    /\ excluded_ranges = <<>>
    /\ result = None
    /\ examined = 0
    /\ excluded_countries = <<>>
    /\ timestamp = U32Zero
    /\ stdin = <<>>
    /\ committed = None
    /\ decoded = None
    /\ IdleCodec
    /\ IdleHost

\* ensure_geoip_database, lines 94-104 and 115: the staleness condition.
EnsureCheck ==
    /\ pc = "ensure"
    /\ IF refresh \/ ~file.exists \/ is_cache_stale(file, now)
       THEN /\ attempted' = TRUE
            /\ pc' = "fetch"
            /\ UNCHANGED ensured
       ELSE /\ attempted' = FALSE
            /\ pc' = "ensured"
            /\ ensured' = Ok(CachePath)
    /\ UNCHANGED <<refresh, file, now, before, content, fetch_error, warned,
                   notCache>>

\* fetch_geoip_database, lines 73-84: the request, the status, the body and
\* the data directory; each can fail.
FetchRequest ==
    /\ pc = "fetch"
    /\ \/ /\ content' = RemoteCsv
          /\ pc' = "create"
          /\ UNCHANGED fetch_error
       \/ \E e \in FetchSteps :
             /\ fetch_error' = e
             /\ pc' = "fetch_failed"
             /\ UNCHANGED content
    /\ UNCHANGED <<refresh, file, now, before, attempted, warned, ensured,
                   notCache>>

\* fetch_geoip_database, line 86: File::create makes the file or truncates
\* it; when it fails the file is as it was.
FetchCreate ==
    /\ pc = "create"
    /\ \/ /\ file' = [exists |-> TRUE, content |-> <<>>, mtime |-> now]
          /\ pc' = "write"
          /\ UNCHANGED fetch_error
       \/ /\ fetch_error' = "Failed to create cache file"
          /\ pc' = "fetch_failed"
          /\ UNCHANGED file
    /\ UNCHANGED <<refresh, now, before, attempted, content, warned, ensured,
                   notCache>>

\* fetch_geoip_database, lines 87-90, and ensure_geoip_database returning
\* the path: write_all writes the whole body, or fails with a part of it
\* written.
FetchWrite ==
    /\ pc = "write"
    /\ \/ /\ file' = [file EXCEPT !.content = content, !.mtime = now]
          /\ pc' = "ensured"
          /\ ensured' = Ok(CachePath)
          /\ UNCHANGED fetch_error
       \/ \E k \in 0..(Len(content) - 1) :
             /\ file' = [file EXCEPT !.content = SubSeq(content, 1, k),
                                     !.mtime = now]
             /\ fetch_error' = "Failed to write cache file"
             /\ pc' = "fetch_failed"
             /\ UNCHANGED ensured
    /\ UNCHANGED <<refresh, now, before, attempted, content, warned, notCache>>

\* ensure_geoip_database, lines 106-112 and 115: the fetch returned Err.
FetchFailed ==
    /\ pc = "fetch_failed"
    /\ IF file.exists
       THEN /\ warned' = TRUE
            /\ ensured' = Ok(CachePath)
            /\ pc' = "ensured"
       ELSE /\ ensured' = Err(fetch_error)
            /\ pc' = "fatal"
            /\ UNCHANGED warned
    /\ UNCHANGED <<refresh, file, now, before, attempted, content, fetch_error,
                   notCache>>

NextCache ==
    EnsureCheck \/ FetchRequest \/ FetchCreate \/ FetchWrite \/ FetchFailed

SpecCache == InitCache /\ [][NextCache]_vars

\* C9: when the refetch fails at any step, the call returns the error if no
\* cache file existed before the attempt; if one existed it warns, returns
\* the path, and the cache file has the contents it had before the attempt.
C9_FailedRefetch ==
    (pc \in {"ensured", "fatal"} /\ attempted /\ fetch_error # None) =>
        IF ~before.exists
        THEN pc = "fatal" /\ ensured = Err(fetch_error)
        ELSE /\ pc = "ensured"
             /\ ensured = Ok(CachePath)
             /\ warned
             /\ file.content = before.content

\* C10 (amended): a refetch is attempted exactly when the refresh flag is
\* set, or the cache file does not exist, or its last-modified time is more
\* than 30 days before the current time or lies after it; without the flag a
\* cache file aged 0 to 30 days is returned as is, with no fetch attempt and
\* no write.
C10_RefetchWhenStale ==
    pc # "ensure" =>
        /\ attempted <=> \/ refresh
                         \/ ~before.exists
                         \/ before.mtime + MaxAgeSecs < now
                         \/ before.mtime > now
        /\ ~attempted =>
               /\ pc = "ensured"
               /\ ensured = Ok(CachePath)
               /\ file = before
               /\ content = <<>>

\* Without the flag, a cache file aged exactly 30 days was returned as is.
C10_Witness ==
    /\ pc = "ensured"
    /\ ~refresh
    /\ before.exists
    /\ now - before.mtime = MaxAgeSecs
    /\ ~attempted
    /\ file = before

\* C10 as claimed: a refetch is attempted exactly when the refresh flag is
\* set, or the cache file does not exist, or its last-modified time is more
\* than 30 days before the current time.
C10_AsClaimed ==
    pc # "ensure" =>
        /\ attempted <=> \/ refresh
                         \/ ~before.exists
                         \/ before.mtime + MaxAgeSecs < now
        /\ ~attempted =>
               /\ pc = "ensured"
               /\ ensured = Ok(CachePath)
               /\ file = before
               /\ content = <<>>

(***************************************************************************)
(* script main.rs, the --execute branch: client.execute, abi_decode, the   *)
(* host's own is_excluded and the assert_eq!                               *)
(*                                                                         *)
(* The proving environment is outside the repository.  It returns what the *)
(* program of program/src/main.rs commits, or, when the embedded ELF or    *)
(* the environment is at fault, the encoding of another verdict, bytes     *)
(* that do not decode, or an error.                                        *)
(***************************************************************************)
InitExecute ==
    /\ pc = "host"
    /\ ip \in PrivAddrs
    /\ excluded_ranges \in PrivRangeSets
    /\ excluded_countries \in CountryLists
    /\ timestamp \in Timestamps
    /\ stdin = <<>>
    /\ result = None
    /\ examined = 0
    /\ committed = None
    /\ decoded = None
    /\ IdleExec
    /\ IdleRace
    /\ IdleCodec
    /\ IdleHost
    /\ IdleCache

\* lines 229-233: client.execute(ZKIP_ELF, &stdin).run(), with the ? on it
ClientExecute ==
    /\ pc = "execute"
    /\ \/ \E out \in ExecuteOutputs(stdin) :
             /\ output' = out
             /\ pc' = "executed"
       \/ /\ pc' = "exit_err"
          /\ UNCHANGED output
    /\ UNCHANGED <<progVars, expected, passed, codecVars, resolverVars,
                   loaderVars, cacheVars, raceVars>>

\* lines 235-245: abi_decode of the output, with the ? on it
HostDecodeOutput ==
    /\ pc = "executed"
    /\ decoded' = abi_decode(output)
    /\ pc' = IF abi_decode(output).ok THEN "decoded" ELSE "exit_err"
    /\ UNCHANGED <<ip, excluded_ranges, excluded_countries, timestamp, stdin,
                   result, examined, committed, notProg>>

\* Mutant: the comparison is left out.
HostVerify_unchecked ==
    /\ pc = "decoded"
    /\ expected' = is_excluded(ip, excluded_ranges)
    /\ passed' = TRUE
    /\ pc' = "passed"
    /\ UNCHANGED <<progVars, output, codecVars, resolverVars, loaderVars,
                   cacheVars, raceVars>>

\* lines 247-249: expected, assert_eq!(is_excluded, expected), and the
\* "Verification passed!" line; the assertion panics on a mismatch.
HostVerify ==
    /\ pc = "decoded"
    /\ expected' = is_excluded(ip, excluded_ranges)
    /\ IF decoded.val.is_excluded = is_excluded(ip, excluded_ranges)
       THEN /\ passed' = TRUE
            /\ pc' = "passed"
       ELSE /\ pc' = "panicked"
            /\ UNCHANGED passed
    /\ UNCHANGED <<progVars, output, codecVars, resolverVars, loaderVars,
                   cacheVars, raceVars>>

\* lines 251 and 265: the cycle count, and Ok(())
HostReport ==
    /\ pc = "passed"
    /\ pc' = "exit_ok"
    /\ UNCHANGED <<progVars, execVars, codecVars, resolverVars, loaderVars,
                   cacheVars, raceVars>>

NextExecute ==
    HostWriteStdin \/ ClientExecute \/ HostDecodeOutput \/ HostVerify
    \/ HostReport

SpecExecute == InitExecute /\ [][NextExecute]_vars

\* C11: in an execution-only run the host recomputes is_excluded over the
\* address and ranges it wrote to the stdin and compares it with the decoded
\* is_excluded; it reports that verification passed and exits successfully
\* only when the two are equal, and on a mismatch it halts with a failure
\* and takes no later step.
C11_VerifiedOnlyWhenEqual ==
    /\ pc \in {"passed", "exit_ok", "panicked"} =>
           /\ decoded.ok
           /\ expected = is_excluded(stdin[1], stdin[2])
    /\ pc \in {"passed", "exit_ok"} =>
           /\ decoded.val.is_excluded = expected
           /\ passed
    /\ pc = "panicked" =>
           /\ decoded.val.is_excluded # expected
           /\ ~passed
           /\ ~ENABLED NextExecute
    /\ passed => pc \in {"passed", "exit_ok"}

\* The environment returned "not excluded" for an address inside a range:
\* the assertion failed.
C11_Witness ==
    /\ pc = "panicked"
    /\ decoded.ok
    /\ decoded.val.is_excluded = TRUE
    /\ expected = FALSE
    /\ ~passed

(***************************************************************************)
(* Two runs of script main.rs at once on one cache file:                   *)
(* ensure_geoip_database, fetch_geoip_database and                         *)
(* load_ip_ranges_for_countries of each run, interleaved.  Each run has    *)
(* its own descriptor from File::create, with its own offset; the file is  *)
(* the one at get_cache_path().                                            *)
(***************************************************************************)
Runs == {1, 2}

\* The byte of a hole left by a write past the end of the file.
Nul == "NUL"

\* write(2) of chunk at a descriptor's offset off: bytes past the end of the
\* file are added, a gap before off reads as zero bytes.
WriteAt(bytes, off, chunk) ==
    IF chunk = <<>> THEN bytes ELSE
    LET filled == IF Len(bytes) < off
                  THEN bytes \o [i \in 1..(off - Len(bytes)) |-> Nul]
                  ELSE bytes
        last == IF Len(filled) > off + Len(chunk) THEN Len(filled)
                ELSE off + Len(chunk)
    IN  [i \in 1..last |->
            IF i > off /\ i <= off + Len(chunk) THEN chunk[i - off]
            ELSE filled[i]]

\* A line of BufRead::lines that ended in a line feed: a carriage return
\* before the line feed is dropped with it.
StripCr(line) ==
    IF line # <<>> /\ line[Len(line)] = "\r"
    THEN SubSeq(line, 1, Len(line) - 1) ELSE line

\* The lines of text that end in a line feed.
CompleteLines(text) ==
    LET pieces == Split(text, "\n") IN
    [i \in 1..(Len(pieces) - 1) |-> StripCr(pieces[i])]

\* BufRead::lines at the end of the file: the lines that end in a line feed
\* and, when bytes follow the last line feed, those bytes as the last line.
Lines(text) ==
    LET pieces == Split(text, "\n")
        rest == pieces[Len(pieces)]
    IN  CompleteLines(text) \o (IF rest = <<>> THEN <<>> ELSE <<rest>>)

\* The offsets in the body at which a write of write_all may stop short:
\* inside the first row, after its line feed, and inside the second row.
WriteCuts == {3, 7, 10}

\* The codes both runs exclude.
RaceCodes == <<<<"F", "R">>, <<"U", "S">>>>

\* No cache, a cache a day old, and one older than the limit.
RaceFiles ==
    {NoFile} \cup {[exists |-> TRUE,
                    content |-> <<"9", ",", "9", ",", "U", "S", "\n">>,
                    mtime |-> m] : m \in {Now0 - Day, Now0 - MaxAgeSecs - 1}}

StartRun(flag) ==
    [pc |-> "ensure", refresh |-> flag, attempted |-> FALSE, off |-> 0,
     fetch_error |-> None, warned |-> FALSE, roff |-> 0, seen |-> <<>>,
     pending |-> <<>>, ranges |-> <<>>, loaded |-> None]

InitRace ==
    /\ pc = "race"
    /\ IdleExec
    /\ run \in {[r \in Runs |-> StartRun(f[r])] : f \in [Runs -> BOOLEAN]}
    /\ file \in RaceFiles
    /\ now = Now0
    /\ refresh = FALSE
    /\ before = file
    /\ attempted = FALSE
    /\ content = RemoteCsv
    /\ fetch_error = None
    /\ warned = FALSE
    /\ ensured = None
    /\ ip = U32Zero
    /\ excluded_ranges = <<>>
    /\ result = None
    /\ examined = 0
    /\ IdleProg
    /\ IdleCodec
    /\ IdleHost

notRace == <<pc, progVars, execVars, codecVars, resolverVars, loaderVars,
             refresh, now, before, attempted, content, fetch_error, warned,
             ensured>>

\* ensure_geoip_database of run r, lines 94-104 and 115.
RunEnsureCheck(r) ==
    /\ run[r].pc = "ensure"
    /\ IF run[r].refresh \/ ~file.exists \/ is_cache_stale(file, now)
       THEN run' = [run EXCEPT ![r].attempted = TRUE, ![r].pc = "fetch"]
       ELSE run' = [run EXCEPT ![r].pc = "ensured"]
    /\ UNCHANGED <<file, notRace>>

\* fetch_geoip_database of run r, lines 73-84.
RunFetchRequest(r) ==
    /\ run[r].pc = "fetch"
    /\ \/ run' = [run EXCEPT ![r].pc = "create"]
       \/ \E e \in FetchSteps :
             run' = [run EXCEPT ![r].fetch_error = e,
                                ![r].pc = "fetch_failed"]
    /\ UNCHANGED <<file, notRace>>

\* Mutant: File::create waits while another run is writing.
RunFetchCreate_locked(r) ==
    /\ run[r].pc = "create"
    /\ \A s \in Runs \ {r} : run[s].pc # "write"
    /\ file' = [exists |-> TRUE, content |-> <<>>, mtime |-> now]
    /\ run' = [run EXCEPT ![r].off = 0, ![r].pc = "write"]
    /\ UNCHANGED notRace

\* fetch_geoip_database of run r, line 86: File::create makes the file or
\* truncates it, whatever the other run is doing, and opens a descriptor
\* at offset 0.
RunFetchCreate(r) ==
    /\ run[r].pc = "create"
    /\ \/ /\ file' = [exists |-> TRUE, content |-> <<>>, mtime |-> now]
          /\ run' = [run EXCEPT ![r].off = 0, ![r].pc = "write"]
       \/ /\ run' = [run EXCEPT ![r].fetch_error = "Failed to create cache file",
                                ![r].pc = "fetch_failed"]
          /\ UNCHANGED file
    /\ UNCHANGED notRace

\* fetch_geoip_database of run r, lines 87-90: one write of the loop of
\* write_all, of the bytes left or of a part of them, at the descriptor's
\* offset; after the last one the function returns and
\* ensure_geoip_database returns the path.
RunFetchWrite(r) ==
    /\ run[r].pc = "write"
    /\ \/ \E to \in {c \in WriteCuts \cup {Len(content)} : c > run[r].off} :
             /\ file' = [file EXCEPT
                           !.content = WriteAt(file.content, run[r].off,
                                               SubSeq(content, run[r].off + 1,
                                                      to)),
                           !.mtime = now]
             /\ run' = [run EXCEPT
                          ![r].off = to,
                          ![r].pc = IF to = Len(content)
                                    THEN "ensured" ELSE "write"]
       \/ /\ run' = [run EXCEPT ![r].fetch_error = "Failed to write cache file",
                                ![r].pc = "fetch_failed"]
          /\ UNCHANGED file
    /\ UNCHANGED notRace

\* ensure_geoip_database of run r, lines 106-112 and 115.
RunFetchFailed(r) ==
    /\ run[r].pc = "fetch_failed"
    /\ IF file.exists
       THEN run' = [run EXCEPT ![r].warned = TRUE, ![r].pc = "ensured"]
       ELSE run' = [run EXCEPT ![r].pc = "fatal"]
    /\ UNCHANGED <<file, notRace>>

\* load_ip_ranges_for_countries of run r, line 170: File::open, which gives
\* the run a descriptor at offset 0 or fails.
RunOpen(r) ==
    /\ run[r].pc = "ensured"
    /\ IF file.exists
       THEN run' = [run EXCEPT ![r].roff = 0, ![r].seen = <<>>,
                               ![r].pending = <<>>, ![r].ranges = <<>>,
                               ![r].pc = "read"]
       ELSE run' = [run EXCEPT
                      ![r].loaded = Err("Failed to open GeoIP database"),
                      ![r].pc = "loaded"]
    /\ UNCHANGED <<file, notRace>>

\* The bytes of text after its last line feed.
Pending(text) ==
    LET pieces == Split(text, "\n") IN pieces[Len(pieces)]

\* load_ip_ranges_for_countries of run r, lines 171-187: one read of the
\* BufReader, which takes the bytes the file now holds past the
\* descriptor's offset (the files here are shorter than its buffer), and
\* the turns of the loop over reader.lines() it allows.  Bytes read are
\* rows up to their last line feed, and the rest waits for the next read.
\* A read of no bytes makes a line of the bytes that wait, and the loop
\* reads again; with no byte waiting it ends the loop.  The loop returns at
\* the first row that fails to parse.
RunRead(r) ==
    /\ run[r].pc = "read"
    /\ LET data == IF run[r].roff < Len(file.content)
                   THEN SubSeq(file.content, run[r].roff + 1,
                               Len(file.content))
                   ELSE <<>>
           bytes == run[r].pending \o data
           lines == IF data = <<>> THEN <<run[r].pending>>
                    ELSE CompleteLines(bytes)
           rows == load_rows(lines, RaceCodes, 1, run[r].ranges)
       IN  IF data = <<>> /\ run[r].pending = <<>>
           THEN run' = [run EXCEPT ![r].loaded = Ok(run[r].ranges),
                                   ![r].pc = "loaded"]
           ELSE run' = [run EXCEPT
                          ![r].seen = run[r].seen \o data,
                          ![r].roff = run[r].roff + Len(data),
                          ![r].pending = IF data = <<>> THEN <<>>
                                         ELSE Pending(bytes),
                          ![r].ranges = IF rows.ok THEN rows.val
                                        ELSE run[r].ranges,
                          ![r].loaded = IF rows.ok THEN run[r].loaded
                                        ELSE rows,
                          ![r].pc = IF rows.ok THEN "read" ELSE "loaded"]
    /\ UNCHANGED <<file, notRace>>

NextRace ==
    \E r \in Runs :
        \/ RunEnsureCheck(r)
        \/ RunFetchRequest(r)
        \/ RunFetchCreate(r)
        \/ RunFetchWrite(r)
        \/ RunFetchFailed(r)
        \/ RunOpen(r)
        \/ RunRead(r)

SpecRace == InitRace /\ [][NextRace]_vars

\* C12: the cache file is guarded by the staleness condition only and by no
\* lock.  A run that is about to check, truncate or write the file can do
\* so whatever the other run is doing; every run that found the cache stale
\* or missing and whose fetch did not fail has written the whole body; a
\* run ends its load at a read that finds no byte past its offset, with the
\* rows of the bytes it saw until then, whether or not another run has
\* truncated the file and not yet written it again.
C12_NoLock ==
    \A r \in Runs :
        /\ run[r].pc = "ensure" => ENABLED RunEnsureCheck(r)
        /\ run[r].pc = "create" =>
               ENABLED (RunFetchCreate(r) /\ file'.content = <<>>)
        /\ run[r].pc = "write" =>
               ENABLED (RunFetchWrite(r) /\ run'[r].off > run[r].off)
        /\ (run[r].pc \in {"ensured", "loaded"} /\ run[r].attempted
                /\ ~run[r].warned) =>
               run[r].off = Len(content)
        /\ (run[r].pc = "loaded" /\ run[r].loaded.ok) =>
               /\ run[r].loaded.val = run[r].ranges
               /\ run[r].pending = <<>>
               /\ run[r].roff = Len(run[r].seen)

\* Both runs found the cache stale or missing.  One wrote the whole body,
\* the other then truncated the file, and the first read it before the
\* other had written a byte: it loaded no range at all, where the body
\* holds two.
C12_Witness ==
    \E r \in Runs : \E s \in Runs \ {r} :
        /\ run[r].attempted /\ run[s].attempted
        /\ run[r].pc = "loaded"
        /\ ~run[r].warned
        /\ run[r].off = Len(content)
        /\ run[s].pc = "write"
        /\ run[s].off = 0
        /\ run[r].seen = <<>>
        /\ run[r].loaded = Ok(<<>>)
        /\ Len(load_ip_ranges_for_countries(Lines(content), RaceCodes).val) = 2

====
